---- MODULE Spec2Model ----
(***************************************************************************)
(* A model of the stock-tracker service layer (app/portfolio_service.py)   *)
(* over the two tables declared in app/models.py.                          *)
(*                                                                         *)
(* Representation.                                                         *)
(*  - A ticker is a sequence of one-character strings.                     *)
(*  - A Decimal is an integer; all the arithmetic the service does on      *)
(*    shares and prices (products, sums, differences) is exact.            *)
(*  - An Optional value is a sequence of length 0 (None) or 1.             *)
(*  - A table is the set of its rows; a row carries its primary key.  A    *)
(*    select without ORDER BY lists the rows by ascending primary key.     *)
(*  - The quote provider is outside the program: every lookup draws the    *)
(*    provider's outcome afresh.                                           *)
(*  - The service methods are synchronous: a call is one step, `last'    *)
(*    holds the call and its result until the caller has it (Return), and  *)
(*    the next call is made after that.                                    *)
(*  - `sessions' holds the database sessions of callers that are inside    *)
(*    get_or_create_default_user at the same time; there a step is one     *)
(*    statement executed by the store.                                     *)
(***************************************************************************)
EXTENDS Integers, Sequences, FiniteSets, TLC

VARIABLES users, holdings, last, sessions

vars == <<users, holdings, last, sessions>>

----------------------------------------------------------------------------
(* Bounds of the model *)

\* Primary keys the store can hand out for stock_holdings rows.
MaxHoldingId == 2

HoldingIds == 1..MaxHoldingId

\* Callers that are inside get_or_create_default_user at the same time.
MaxCallers == 3

Callers == 1..MaxCallers

\* user_id arguments the callers pass (a user row need not exist for them).
UserIds == {1, 2}

\* Program constant: the declared length of the ticker column.
TickerMaxLength == 10

Rep(c, n) == [i \in 1..n |-> c]

\* Ticker arguments: one in mixed case, one longer than the column.
ShortTicker == <<"a", "B">>
LongTicker == Rep("b", TickerMaxLength + 1)
Tickers == {ShortTicker, LongTicker}

\* (ticker, shares, purchase_price) arguments of add_holding: a plain
\* purchase, zero shares, negative shares, a negative price, and a ticker
\* longer than the column.
AddInputs ==
  { <<ShortTicker, 2, 3>>, <<ShortTicker, 0, 3>>, <<ShortTicker, -1, 3>>,
    <<ShortTicker, 2, -1>>, <<LongTicker, 2, 3>> }

\* What the provider can answer to one history request: it fails, it has no
\* rows, or it has a latest close (in tenths of a cent).
Closes == {4, 15}
ProviderOutcomes == {<<"error">>, <<"empty">>} \cup {<<"close", c>> : c \in Closes}

----------------------------------------------------------------------------
(* Optional values *)

None == <<>>
Some(v) == <<v>>
IsNone(o) == o = <<>>
Val(o) == o[1]

----------------------------------------------------------------------------
(* str.upper() *)

UpperChar(c) ==
  CASE c = "a" -> "A"
    [] c = "b" -> "B"
    [] OTHER -> c

Upper(t) == [i \in 1..Len(t) |-> UpperChar(t[i])]

IsUpper(t) == \A i \in 1..Len(t) : t[i] \notin {"a", "b"}

----------------------------------------------------------------------------
(* Quote lookup *)

\* round(latest_price, 2) on a close given in tenths of a cent: to the
\* nearest cent, a tie going to the even cent.
Round2(mills) ==
  LET q == mills \div 10
      r == mills % 10
  IN  IF r < 5 THEN q
      ELSE IF r > 5 THEN q + 1
      ELSE IF q % 2 = 0 THEN q ELSE q + 1

\* get_stock_price taking an empty history for a price of 0.
get_stock_price_EmptyIsZero(ticker, outcome) ==
  IF outcome[1] = "error" THEN None
  ELSE IF outcome[1] = "empty" THEN Some(0)
  ELSE Some(Round2(outcome[2]))

\* get_stock_price(ticker) when the provider answers `outcome` to the
\* request for ticker.upper(): None on an error or an empty history,
\* otherwise the rounded latest close.
get_stock_price(ticker, outcome) ==
  IF outcome[1] = "error" THEN None
  ELSE IF outcome[1] = "empty" THEN None
  ELSE Some(Round2(outcome[2]))

----------------------------------------------------------------------------
(* Decimal quotients *)

\* The quotient of two Decimals is a Decimal of at most DecimalPrec
\* significant digits: [neg, digits, exp] stands for
\* (-1)^neg * digits * 10^exp, the digits without leading or trailing
\* zeros (zero has no digits), so that equal values are equal records.
DecimalPrec == 28

DecimalZero == [neg |-> FALSE, digits |-> <<>>, exp |-> 0]

\* The decimal digits of the natural number n, none for 0.
RECURSIVE IntDigits(_)
IntDigits(n) == IF n = 0 THEN <<>> ELSE Append(IntDigits(n \div 10), n % 10)

\* The digits plus one in the last place.
RECURSIVE IncDigits(_)
IncDigits(ds) ==
  IF ds = <<>> THEN <<1>>
  ELSE IF ds[Len(ds)] < 9
       THEN [ds EXCEPT ![Len(ds)] = @ + 1]
       ELSE Append(IncDigits(SubSeq(ds, 1, Len(ds) - 1)), 0)

\* The record with its trailing zeros moved into the exponent.
RECURSIVE Normalize(_)
Normalize(d) ==
  IF d.digits = <<>> THEN DecimalZero
  ELSE IF d.digits[Len(d.digits)] = 0
       THEN Normalize([d EXCEPT !.digits = SubSeq(@, 1, Len(@) - 1), !.exp = @ + 1])
       ELSE d

\* The digits kept, rounded half to even on what follows them: the next
\* digit of the division and whether anything is left after it.
RoundHalfEven(kept, next, rest) ==
  IF \/ next > 5
     \/ next = 5 /\ rest > 0
     \/ next = 5 /\ rest = 0 /\ kept[Len(kept)] % 2 = 1
  THEN IncDigits(kept)
  ELSE kept

\* Long division of the remainder r by b, `digits` being the quotient so
\* far at exponent exp: it ends when nothing is left or when DecimalPrec
\* significant digits are there, which are then rounded.
RECURSIVE LongDivide(_, _, _, _)
LongDivide(r, b, digits, exp) ==
  IF r = 0
  THEN [neg |-> FALSE, digits |-> digits, exp |-> exp]
  ELSE IF Len(digits) = DecimalPrec
       THEN [neg |-> FALSE,
             digits |-> RoundHalfEven(digits, (r * 10) \div b, (r * 10) % b),
             exp |-> exp]
       ELSE LongDivide((r * 10) % b, b,
                       IF digits = <<>> /\ (r * 10) \div b = 0
                       THEN digits
                       ELSE Append(digits, (r * 10) \div b),
                       exp - 1)

\* Decimal a / Decimal b for b # 0 under the default context.
DecimalDivide(a, b) ==
  IF a = 0 THEN DecimalZero
  ELSE LET n == IF a < 0 THEN 0 - a ELSE a
           m == IF b < 0 THEN 0 - b ELSE b
       IN  [Normalize(LongDivide(n % m, m, IntDigits(n \div m), 0))
              EXCEPT !.neg = (a < 0) # (b < 0)]

\* What a / b signals under the default context, which traps both: a
\* division by zero, or 0 / 0.
DivideSignal(a, b) ==
  IF b # 0 THEN "no"
  ELSE IF a = 0 THEN "InvalidOperation" ELSE "DivisionByZero"

\* d * Decimal("100")
Times100(d) == IF d.digits = <<>> THEN d ELSE [d EXCEPT !.exp = @ + 2]

\* A Decimal expression that did not raise, and its value.
Computed(d) == [raised |-> "no", value |-> d]

\* a / b * Decimal("100"): the exception the division raises, or the value.
PercentOf(a, b) ==
  IF DivideSignal(a, b) # "no"
  THEN [raised |-> DivideSignal(a, b)]
  ELSE Computed(Times100(DecimalDivide(a, b)))

----------------------------------------------------------------------------
(* Tables *)

\* StockHolding row.
StockHolding(id, ticker, shares, purchase_price, user_id) ==
  [id |-> id, ticker |-> ticker, shares |-> shares,
   purchase_price |-> purchase_price, user_id |-> user_id]

\* The id of a StockHolding the store has not saved (id = None); the store
\* assigns positive keys.
NoId == 0

\* StockHolding.total_purchase_value
total_purchase_value(h) == h.shares * h.purchase_price

\* User row.
User(id, name, email) == [id |-> id, name |-> name, email |-> email, is_active |-> TRUE]

DefaultEmail == "user@portfolio.com"
DefaultName == "Portfolio User"

MaxOf(S) == CHOOSE m \in S : \A x \in S : x <= m
MinOf(S) == CHOOSE m \in S : \A x \in S : m <= x

\* Rows of a table by ascending primary key.
RECURSIVE ById(_)
ById(rows) ==
  IF rows = {} THEN <<>>
  ELSE LET m == MinOf({r.id : r \in rows})
           r == CHOOSE x \in rows : x.id = m
       IN  <<r>> \o ById(rows \ {r})

\* Primary keys the store may assign to a new row of `rows`: one above
\* every stored key (the next of a sequence, or max + 1).
FreshIds(rows, ids) ==
  {i \in ids : \A r \in rows : r.id < i}

\* session.get(StockHolding, holding_id)
session_get(rows, id) ==
  IF \E r \in rows : r.id = id
  THEN Some(CHOOSE r \in rows : r.id = id)
  ELSE None

----------------------------------------------------------------------------
(* Initial state: the tables as create_tables() leaves them. *)

NoCall == [op |-> "none"]

\* A caller that has not called yet.
NoSession == [pc |-> "start", result |-> None]

Init ==
  /\ users = {}
  /\ holdings = {}
  /\ last = NoCall
  /\ sessions = [c \in Callers |-> NoSession]

----------------------------------------------------------------------------
(* PortfolioService *)

\* The select without its where clause.
get_user_holdings_AllUsers(rows, user_id) == ById(rows)

\* select(StockHolding).where(StockHolding.user_id == user_id)
get_user_holdings(rows, user_id) ==
  ById({h \in rows : h.user_id = user_id})

\* from_holding dividing whenever the purchase value is not negative.
from_holding_GuardAdmitsZero(holding, current_price) ==
  IF holding.id = NoId
  THEN [raised |-> "ValueError"]
  ELSE LET current_value == holding.shares * current_price
           purchase_value == total_purchase_value(holding)
           gain_loss == current_value - purchase_value
           gain_loss_percent == IF purchase_value >= 0
                                THEN PercentOf(gain_loss, purchase_value)
                                ELSE Computed(DecimalZero)
       IN  IF gain_loss_percent.raised # "no"
           THEN [raised |-> gain_loss_percent.raised]
           ELSE [raised |-> "no",
                 id |-> holding.id,
                 ticker |-> holding.ticker,
                 shares |-> holding.shares,
                 purchase_price |-> holding.purchase_price,
                 current_price |-> current_price,
                 current_value |-> current_value,
                 gain_loss |-> gain_loss,
                 gain_loss_percent |-> gain_loss_percent.value]

\* from_holding taking the difference the other way round.
from_holding_PurchaseMinusCurrent(holding, current_price) ==
  IF holding.id = NoId
  THEN [raised |-> "ValueError"]
  ELSE LET current_value == holding.shares * current_price
           purchase_value == total_purchase_value(holding)
           gain_loss == purchase_value - current_value
           gain_loss_percent == IF purchase_value > 0
                                THEN PercentOf(gain_loss, purchase_value)
                                ELSE Computed(DecimalZero)
       IN  IF gain_loss_percent.raised # "no"
           THEN [raised |-> gain_loss_percent.raised]
           ELSE [raised |-> "no",
                 id |-> holding.id,
                 ticker |-> holding.ticker,
                 shares |-> holding.shares,
                 purchase_price |-> holding.purchase_price,
                 current_price |-> current_price,
                 current_value |-> current_value,
                 gain_loss |-> gain_loss,
                 gain_loss_percent |-> gain_loss_percent.value]

\* from_holding building the view whether the holding has an id or not.
from_holding_NoIdCheck(holding, current_price) ==
  IF FALSE
  THEN [raised |-> "ValueError"]
  ELSE LET current_value == holding.shares * current_price
           purchase_value == total_purchase_value(holding)
           gain_loss == current_value - purchase_value
           gain_loss_percent == IF purchase_value > 0
                                THEN PercentOf(gain_loss, purchase_value)
                                ELSE Computed(DecimalZero)
       IN  IF gain_loss_percent.raised # "no"
           THEN [raised |-> gain_loss_percent.raised]
           ELSE [raised |-> "no",
                 id |-> holding.id,
                 ticker |-> holding.ticker,
                 shares |-> holding.shares,
                 purchase_price |-> holding.purchase_price,
                 current_price |-> current_price,
                 current_value |-> current_value,
                 gain_loss |-> gain_loss,
                 gain_loss_percent |-> gain_loss_percent.value]

\* HoldingWithCurrentPrice.from_holding(holding, current_price): a
\* ValueError for a holding without id, otherwise the view.
from_holding(holding, current_price) ==
  IF holding.id = NoId
  THEN [raised |-> "ValueError"]
  ELSE LET current_value == holding.shares * current_price
           purchase_value == total_purchase_value(holding)
           gain_loss == current_value - purchase_value
           gain_loss_percent == IF purchase_value > 0
                                THEN PercentOf(gain_loss, purchase_value)
                                ELSE Computed(DecimalZero)
       IN  IF gain_loss_percent.raised # "no"
           THEN [raised |-> gain_loss_percent.raised]
           ELSE [raised |-> "no",
                 id |-> holding.id,
                 ticker |-> holding.ticker,
                 shares |-> holding.shares,
                 purchase_price |-> holding.purchase_price,
                 current_price |-> current_price,
                 current_value |-> current_value,
                 gain_loss |-> gain_loss,
                 gain_loss_percent |-> gain_loss_percent.value]

\* The loop leaving at the first holding without a quote instead of going
\* on to the next.
PriceLoop_StopAtUnpriced(listed, outs, i, views, lookups) ==
  IF i > Len(listed)
  THEN [raised |-> "no", views |-> views, lookups |-> lookups]
  ELSE LET holding == listed[i]
           current_price == get_stock_price(holding.ticker, outs[i])
           looked == Append(lookups, [id |-> holding.id,
                                      ticker |-> Upper(holding.ticker),
                                      answer |-> outs[i],
                                      price |-> current_price])
           view == from_holding(holding, Val(current_price))
       IN  IF IsNone(current_price)
           THEN [raised |-> "no", views |-> views, lookups |-> looked]
           ELSE [raised |-> "no", views |-> Append(views, view), lookups |-> looked]

RECURSIVE PriceLoop(_, _, _, _, _)

\* The loop keeping the quotes of the call by ticker: a ticker looked up
\* for an earlier holding is not looked up again.
PriceLoop_CachedByTicker(listed, outs, i, views, lookups) ==
  IF i > Len(listed)
  THEN [raised |-> "no", views |-> views, lookups |-> lookups]
  ELSE LET holding == listed[i]
           cached == {k \in DOMAIN lookups : lookups[k].ticker = Upper(holding.ticker)}
           current_price == IF cached # {}
                            THEN lookups[CHOOSE k \in cached : TRUE].price
                            ELSE get_stock_price(holding.ticker, outs[i])
           looked == IF cached # {}
                     THEN lookups
                     ELSE Append(lookups, [id |-> holding.id,
                                           ticker |-> Upper(holding.ticker),
                                           answer |-> outs[i],
                                           price |-> current_price])
       IN  IF IsNone(current_price)
           THEN PriceLoop(listed, outs, i + 1, views, looked)
           ELSE PriceLoop(listed, outs, i + 1,
                          Append(views, from_holding(holding, Val(current_price))),
                          looked)

\* The loop of get_holdings_with_prices from the i-th listed holding on,
\* the provider answering outs[i] to the lookup for the i-th; `views` and
\* `lookups` are what the loop has appended and looked up so far.
PriceLoop(listed, outs, i, views, lookups) ==
  IF i > Len(listed)
  THEN [raised |-> "no", views |-> views, lookups |-> lookups]
  ELSE LET holding == listed[i]
           current_price == get_stock_price(holding.ticker, outs[i])
           looked == Append(lookups, [id |-> holding.id,
                                      ticker |-> Upper(holding.ticker),
                                      answer |-> outs[i],
                                      price |-> current_price])
       IN  IF IsNone(current_price)
           THEN PriceLoop(listed, outs, i + 1, views, looked)
           ELSE LET view == from_holding(holding, Val(current_price))
                IN  IF view.raised # "no"
                    THEN [raised |-> view.raised, views |-> views, lookups |-> looked]
                    ELSE PriceLoop(listed, outs, i + 1, Append(views, view), looked)

\* get_holdings_with_prices(user_id) over the rows `rows`.
get_holdings_with_prices(rows, user_id, outs) ==
  PriceLoop(get_user_holdings(rows, user_id), outs, 1, <<>>, <<>>)

\* The summing loop adding the current value to both totals.
RECURSIVE SumLoop(_, _, _, _)
SumLoop_CurrentIntoBoth(views, i, total_current, total_purchase) ==
  IF i > Len(views)
  THEN <<total_current, total_purchase>>
  ELSE SumLoop(views, i + 1,
               total_current + views[i].current_value,
               total_purchase + views[i].current_value)

\* The summing loop of get_portfolio_summary from the i-th view on.
SumLoop(views, i, total_current, total_purchase) ==
  IF i > Len(views)
  THEN <<total_current, total_purchase>>
  ELSE SumLoop(views, i + 1,
               total_current + views[i].current_value,
               total_purchase + views[i].shares * views[i].purchase_price)

\* PortfolioSummary(...) as get_portfolio_summary builds it from the two
\* totals, the percentage and the number of views.
PortfolioSummary(total_current, total_purchase, percent, count) ==
  [total_current_value |-> total_current,
   total_purchase_value |-> total_purchase,
   total_gain_loss |-> total_current - total_purchase,
   total_gain_loss_percent |-> percent,
   holdings_count |-> count]

\* get_portfolio_summary over the views get_holdings_with_prices returned:
\* the exception the percentage raises, or the summary.
get_portfolio_summary(views) ==
  LET totals == SumLoop(views, 1, 0, 0)
      total_gain_loss == totals[1] - totals[2]
      total_gain_loss_percent == IF totals[2] > 0
                                 THEN PercentOf(total_gain_loss, totals[2])
                                 ELSE Computed(DecimalZero)
  IN  IF total_gain_loss_percent.raised # "no"
      THEN [raised |-> total_gain_loss_percent.raised]
      ELSE [raised |-> "no",
            summary |-> PortfolioSummary(totals[1], totals[2],
                                         total_gain_loss_percent.value, Len(views))]

----------------------------------------------------------------------------
(* Operations: one action per call of a service method. *)

\* What every call records: the tables as the call found them.
Call(op, fields) ==
  [op |-> op, before |-> holdings, usersBefore |-> users] @@ fields

\* add_holding that writes the row before the lookup has answered and
\* leaves it there when the ticker is rejected.
AddHolding_WriteBeforeLookup(user_id, ticker, shares, purchase_price, outcome) ==
  LET price == get_stock_price(ticker, outcome)
      args == [user_id |-> user_id, ticker |-> ticker, shares |-> shares,
               purchase_price |-> purchase_price,
               lookups |-> <<[id |-> NoId, ticker |-> Upper(ticker),
                              answer |-> outcome, price |-> price]>>]
  IN  \E newId \in FreshIds(holdings, HoldingIds) :
        LET holding == StockHolding(newId, Upper(ticker), shares,
                                    purchase_price, user_id)
        IN  /\ holdings' = holdings \cup {holding}
            /\ users' = users
            /\ sessions' = sessions
            /\ last' = Call("add_holding",
                            args @@ [result |-> IF IsNone(price) THEN None
                                                ELSE Some(holding)])

\* add_holding that stores the ticker as given, without upper().
AddHolding_NoUpper(user_id, ticker, shares, purchase_price, outcome) ==
  LET price == get_stock_price(ticker, outcome)
      args == [user_id |-> user_id, ticker |-> ticker, shares |-> shares,
               purchase_price |-> purchase_price,
               lookups |-> <<[id |-> NoId, ticker |-> Upper(ticker),
                              answer |-> outcome, price |-> price]>>]
  IN  IF IsNone(price)
      THEN /\ holdings' = holdings
           /\ users' = users
           /\ sessions' = sessions
           /\ last' = Call("add_holding", args @@ [result |-> None])
      ELSE \E newId \in FreshIds(holdings, HoldingIds) :
             LET holding == StockHolding(newId, ticker, shares,
                                         purchase_price, user_id)
             IN  /\ holdings' = holdings \cup {holding}
                 /\ users' = users
                 /\ sessions' = sessions
                 /\ last' = Call("add_holding", args @@ [result |-> Some(holding)])

\* add_holding(user_id, ticker, shares, purchase_price), the provider
\* answering `outcome` to the validation lookup; on commit the store
\* assigns the new row its key.
AddHolding(user_id, ticker, shares, purchase_price, outcome) ==
  LET price == get_stock_price(ticker, outcome)
      args == [user_id |-> user_id, ticker |-> ticker, shares |-> shares,
               purchase_price |-> purchase_price,
               lookups |-> <<[id |-> NoId, ticker |-> Upper(ticker),
                              answer |-> outcome, price |-> price]>>]
  IN  IF IsNone(price)
      THEN /\ holdings' = holdings
           /\ users' = users
           /\ sessions' = sessions
           /\ last' = Call("add_holding", args @@ [result |-> None])
      ELSE \E newId \in FreshIds(holdings, HoldingIds) :
             LET holding == StockHolding(newId, Upper(ticker), shares,
                                         purchase_price, user_id)
             IN  /\ holdings' = holdings \cup {holding}
                 /\ users' = users
                 /\ sessions' = sessions
                 /\ last' = Call("add_holding", args @@ [result |-> Some(holding)])

\* delete_holding that deletes every holding of the owner of the row.
DeleteHolding_WholeUser(holding_id) ==
  LET holding == session_get(holdings, holding_id)
  IN  IF IsNone(holding)
      THEN /\ holdings' = holdings
           /\ users' = users
           /\ sessions' = sessions
           /\ last' = Call("delete_holding",
                           [holding_id |-> holding_id, result |-> FALSE])
      ELSE /\ holdings' = {h \in holdings : h.user_id # Val(holding).user_id}
           /\ users' = users
           /\ sessions' = sessions
           /\ last' = Call("delete_holding",
                           [holding_id |-> holding_id, result |-> TRUE])

\* delete_holding that reports success without looking the row up.
DeleteHolding_AlwaysTrue(holding_id) ==
  /\ holdings' = {h \in holdings : h.id # holding_id}
  /\ users' = users
  /\ sessions' = sessions
  /\ last' = Call("delete_holding", [holding_id |-> holding_id, result |-> TRUE])

\* delete_holding(holding_id)
DeleteHolding(holding_id) ==
  LET holding == session_get(holdings, holding_id)
  IN  IF IsNone(holding)
      THEN /\ holdings' = holdings
           /\ users' = users
           /\ sessions' = sessions
           /\ last' = Call("delete_holding",
                           [holding_id |-> holding_id, result |-> FALSE])
      ELSE /\ holdings' = holdings \ {Val(holding)}
           /\ users' = users
           /\ sessions' = sessions
           /\ last' = Call("delete_holding",
                           [holding_id |-> holding_id, result |-> TRUE])

\* select(User).where(User.email == "user@portfolio.com") ... .first()
first_by_email(rows, email) ==
  LET found == ById({u \in rows : u.email = email})
  IN  IF found = <<>> THEN None ELSE Some(found[1])

\* get_or_create_default_user that never finds the stored user.
GetOrCreateDefaultUser_AlwaysCreate ==
  \E newId \in FreshIds(users, UserIds) :
    /\ users' = users \cup {User(newId, DefaultName, DefaultEmail)}
    /\ sessions' = sessions
    /\ holdings' = holdings
    /\ last' = Call("get_or_create_default_user",
                    [created |-> TRUE,
                     result |-> User(newId, DefaultName, DefaultEmail)])

\* get_or_create_default_user(); on commit the store assigns a new row
\* its key.
GetOrCreateDefaultUser ==
  LET user == first_by_email(users, DefaultEmail)
  IN  IF IsNone(user)
      THEN \E newId \in FreshIds(users, UserIds) :
             /\ users' = users \cup {User(newId, DefaultName, DefaultEmail)}
             /\ sessions' = sessions
             /\ holdings' = holdings
             /\ last' = Call("get_or_create_default_user",
                             [created |-> TRUE,
                              result |-> User(newId, DefaultName, DefaultEmail)])
      ELSE /\ users' = users
           /\ sessions' = sessions
           /\ holdings' = holdings
           /\ last' = Call("get_or_create_default_user",
                           [created |-> FALSE, result |-> Val(user)])

\* get_user_holdings(user_id)
GetUserHoldings(user_id) ==
  /\ holdings' = holdings
  /\ users' = users
  /\ sessions' = sessions
  /\ last' = Call("get_user_holdings",
                  [user_id |-> user_id,
                   result |-> get_user_holdings(holdings, user_id)])

\* get_holdings_with_prices(user_id), the provider answering outs[i] to
\* the i-th lookup.
GetHoldingsWithPrices(user_id, outs) ==
  \E r \in {get_holdings_with_prices(holdings, user_id, outs)} :
      /\ holdings' = holdings
      /\ users' = users
      /\ sessions' = sessions
      /\ last' = Call("get_holdings_with_prices",
                      [user_id |-> user_id,
                       lookups |-> r.lookups, raised |-> r.raised,
                       result |-> r.views])

\* get_portfolio_summary deleting the holdings it found no quote for.
GetPortfolioSummary_PrunesUnpriced(user_id, outs) ==
  \E r \in {get_holdings_with_prices(holdings, user_id, outs)} :
    \E t \in {IF r.raised = "no" THEN get_portfolio_summary(r.views) ELSE r} :
      /\ holdings' = {h \in holdings :
                        \A i \in DOMAIN r.lookups :
                          r.lookups[i].id = h.id => ~IsNone(r.lookups[i].price)}
      /\ users' = users
      /\ sessions' = sessions
      /\ last' = Call("get_portfolio_summary",
                      [user_id |-> user_id,
                       lookups |-> r.lookups, raised |-> t.raised,
                       views |-> r.views,
                       result |-> IF t.raised = "no" THEN Some(t.summary) ELSE None])

\* get_portfolio_summary(user_id), the provider answering outs[i] to the
\* i-th lookup.
GetPortfolioSummary(user_id, outs) ==
  \E r \in {get_holdings_with_prices(holdings, user_id, outs)} :
    \E t \in {IF r.raised = "no" THEN get_portfolio_summary(r.views) ELSE r} :
      /\ holdings' = holdings
      /\ users' = users
      /\ sessions' = sessions
      /\ last' = Call("get_portfolio_summary",
                      [user_id |-> user_id,
                       lookups |-> r.lookups, raised |-> t.raised,
                       views |-> r.views,
                       result |-> IF t.raised = "no" THEN Some(t.summary) ELSE None])

\* get_stock_price(ticker), the provider answering `outcome`.
GetStockPrice(ticker, outcome) ==
  /\ holdings' = holdings
  /\ users' = users
  /\ sessions' = sessions
  /\ last' = Call("get_stock_price",
                  [ticker |-> ticker, answer |-> outcome, raised |-> "no",
                   result |-> get_stock_price(ticker, outcome)])

\* HoldingWithCurrentPrice.from_holding(holding, current_price) called on
\* a holding object, stored or not.
FromHolding(holding, current_price) ==
  \E view \in {from_holding(holding, current_price)} :
    /\ holdings' = holdings
    /\ users' = users
    /\ sessions' = sessions
    /\ last' = Call("from_holding",
                    [holding |-> holding, current_price |-> current_price,
                     raised |-> view.raised,
                     result |-> IF view.raised = "no" THEN Some(view) ELSE None])

\* The holding objects from_holding is called on, saved (id 1) or not
\* (no id): those of the add_holding arguments and one bought at price 0.
HoldingObjects ==
  {StockHolding(i, Upper(a[1]), a[2], a[3], 1) :
     i \in {NoId, 1}, a \in AddInputs \cup {<<ShortTicker, 2, 0>>}}

\* The current prices from_holding is called with: the rounded closes.
Prices == {Round2(c) : c \in Closes}

\* The provider's answers to the lookups of one valuation of user_id.
Answers(user_id) ==
  [1..Len(get_user_holdings(holdings, user_id)) -> ProviderOutcomes]

\* The caller has the result of its call.
Return ==
  /\ last # NoCall
  /\ last' = NoCall
  /\ UNCHANGED <<users, holdings, sessions>>

\* No call is under way.
Idle == last = NoCall

\* The service is called by one caller at a time: a call is made when the
\* call before it has returned.
Next ==
  \/ Idle /\ \E u \in UserIds, a \in AddInputs, o \in ProviderOutcomes :
       AddHolding(u, a[1], a[2], a[3], o)
  \/ Idle /\ \E i \in HoldingIds \cup {MaxHoldingId + 1} : DeleteHolding(i)
  \/ Idle /\ GetOrCreateDefaultUser
  \/ Idle /\ \E u \in UserIds : GetUserHoldings(u)
  \/ Idle /\ \E u \in UserIds : \E outs \in Answers(u) : GetHoldingsWithPrices(u, outs)
  \/ Idle /\ \E u \in UserIds : \E outs \in Answers(u) : GetPortfolioSummary(u, outs)
  \/ Idle /\ \E t \in Tickers, o \in ProviderOutcomes : GetStockPrice(t, o)
  \/ Idle /\ \E h \in HoldingObjects, p \in Prices : FromHolding(h, p)
  \/ Return

Spec == Init /\ [][Next]_vars

----------------------------------------------------------------------------
(* from_holding on its own, over holdings and prices in cents that include *)
(* 10 shares bought at 150.00 and quoted at 160.00 or 140.00.              *)

ExampleShares == {-1, 0, 2, 10}
ExamplePurchasePrices == {-1, 0, 3, 15000}
ExamplePrices == {0, 2, 14000, 16000}

ExampleHoldings ==
  {StockHolding(i, Upper(ShortTicker), n, c, 1) :
     i \in {NoId, 1}, n \in ExampleShares, c \in ExamplePurchasePrices}

NextFromHolding ==
  \/ Idle /\ \E h \in ExampleHoldings, c \in ExamplePrices : FromHolding(h, c)
  \/ Return

SpecFromHolding == Init /\ [][NextFromHolding]_vars

----------------------------------------------------------------------------
(* The page (app/portfolio_ui.py): one action per handler.  What a handler *)
(* has put into the summary and holdings containers is recorded with the   *)
(* call: `rendered' is None when the handler did not refresh.              *)

\* str.strip()
RECURSIVE Strip(_)
Strip(t) ==
  IF t # <<>> /\ t[1] = " " THEN Strip(Tail(t))
  ELSE IF t # <<>> /\ t[Len(t)] = " " THEN Strip(SubSeq(t, 1, Len(t) - 1))
  ELSE t

\* The values of the form's ticker, shares and price inputs.
TickerInputs == {<<" ">>, <<"a", "B", " ">>}
SharesInputs == {-1, 0, 2}
PriceInputs == {0, 3}

\* The provider's answers to the lookups of one valuation of user_id over
\* the rows `rows`.
AnswersOver(rows, user_id) ==
  [1..Len(get_user_holdings(rows, user_id)) -> ProviderOutcomes]

\* refresh_summary(user_id): the summary section, an error label when the
\* call raised.
refresh_summary(rows, user_id, outs) ==
  LET r == get_holdings_with_prices(rows, user_id, outs)
      t == IF r.raised = "no" THEN get_portfolio_summary(r.views) ELSE r
  IN  [lookups |-> r.lookups, raised |-> t.raised,
       summary |-> IF t.raised = "no" THEN Some(t.summary) ELSE None]

\* refresh_holdings(user_id): the table rows, none under "No holdings
\* found", an error label when the call raised.
refresh_holdings(rows, user_id, outs) ==
  LET r == get_holdings_with_prices(rows, user_id, outs)
  IN  [lookups |-> r.lookups, raised |-> r.raised,
       rows |-> IF r.raised = "no" THEN r.views ELSE <<>>]

\* refresh_portfolio(user_id): the summary, then the holdings table, each
\* from a valuation of its own.
refresh_portfolio(rows, user_id, outs1, outs2) ==
  [summary |-> refresh_summary(rows, user_id, outs1),
   holdings |-> refresh_holdings(rows, user_id, outs2)]

\* The two containers after refresh_portfolio over `rows`, for every way
\* the provider can answer.
Refreshed(rows, user_id) ==
  {Some(refresh_portfolio(rows, user_id, outs1, outs2)) :
     outs1 \in AnswersOver(rows, user_id), outs2 \in AnswersOver(rows, user_id)}

\* portfolio_page(): the default user is looked up or created, then the
\* page is built and filled.
PortfolioPage ==
  LET found == first_by_email(users, DefaultEmail)
  IN  \E newId \in (IF IsNone(found) THEN FreshIds(users, UserIds)
                                     ELSE {Val(found).id}) :
        LET user == IF IsNone(found) THEN User(newId, DefaultName, DefaultEmail)
                                     ELSE Val(found)
        IN  \E shown \in Refreshed(holdings, user.id) :
              /\ users' = users \cup {user}
              /\ sessions' = sessions
              /\ holdings' = holdings
              /\ last' = Call("portfolio_page",
                              [user_id |-> user.id, rendered |-> shown])

\* The user_id of the page's handlers: the id portfolio_page got.
PageUser == Val(first_by_email(users, DefaultEmail)).id

\* The "Refresh Portfolio" button.
RefreshButton ==
  /\ users # {}
  /\ \E shown \in Refreshed(holdings, PageUser) :
       /\ users' = users
       /\ sessions' = sessions
       /\ holdings' = holdings
       /\ last' = Call("refresh_portfolio",
                       [user_id |-> PageUser, rendered |-> shown])

\* The "Add Holding" button: the inputs are validated, add_holding is
\* called and, when it returned a holding, the page is refreshed.
PageAddHolding(ticker_input, shares, price, outcome) ==
  /\ users # {}
  /\ LET ticker == Upper(Strip(ticker_input))
         args == [user_id |-> PageUser, ticker_input |-> ticker_input,
                  shares |-> shares, price |-> price]
     IN  IF ticker = <<>> \/ shares <= 0 \/ price <= 0
         THEN /\ holdings' = holdings
              /\ users' = users
              /\ sessions' = sessions
              /\ last' = Call("page_add_holding",
                              args @@ [called |-> FALSE, lookups |-> <<>>,
                                       result |-> None, rendered |-> None])
         ELSE LET current_price == get_stock_price(ticker, outcome)
                  looked == <<[id |-> NoId, ticker |-> Upper(ticker),
                               answer |-> outcome, price |-> current_price]>>
              IN  IF IsNone(current_price)
                  THEN /\ holdings' = holdings
                       /\ users' = users
                       /\ sessions' = sessions
                       /\ last' = Call("page_add_holding",
                                       args @@ [called |-> TRUE, lookups |-> looked,
                                                result |-> None, rendered |-> None])
                  ELSE \E newId \in FreshIds(holdings, HoldingIds) :
                         LET holding == StockHolding(newId, Upper(ticker), shares,
                                                     price, PageUser)
                         IN  \E shown \in Refreshed(holdings \cup {holding}, PageUser) :
                               /\ holdings' = holdings \cup {holding}
                               /\ users' = users
                               /\ sessions' = sessions
                               /\ last' = Call("page_add_holding",
                                               args @@ [called |-> TRUE,
                                                        lookups |-> looked,
                                                        result |-> Some(holding),
                                                        rendered |-> shown])

\* The delete handler refreshing the page before it deletes.
PageDeleteHolding_RefreshFirst(holding_id) ==
  /\ users # {}
  /\ LET holding == session_get(holdings, holding_id)
     IN  IF IsNone(holding)
         THEN /\ holdings' = holdings
              /\ users' = users
              /\ sessions' = sessions
              /\ last' = Call("page_delete_holding",
                              [user_id |-> PageUser, holding_id |-> holding_id,
                               result |-> FALSE, rendered |-> None])
         ELSE \E shown \in Refreshed(holdings, PageUser) :
                /\ holdings' = holdings \ {Val(holding)}
                /\ users' = users
                /\ sessions' = sessions
                /\ last' = Call("page_delete_holding",
                                [user_id |-> PageUser, holding_id |-> holding_id,
                                 result |-> TRUE, rendered |-> shown])

\* The delete button of a table row: delete_holding is called with the id
\* the event carries and, when it returned true, the page is refreshed.
PageDeleteHolding(holding_id) ==
  /\ users # {}
  /\ LET holding == session_get(holdings, holding_id)
     IN  IF IsNone(holding)
         THEN /\ holdings' = holdings
              /\ users' = users
              /\ sessions' = sessions
              /\ last' = Call("page_delete_holding",
                              [user_id |-> PageUser, holding_id |-> holding_id,
                               result |-> FALSE, rendered |-> None])
         ELSE \E shown \in Refreshed(holdings \ {Val(holding)}, PageUser) :
                /\ holdings' = holdings \ {Val(holding)}
                /\ users' = users
                /\ sessions' = sessions
                /\ last' = Call("page_delete_holding",
                                [user_id |-> PageUser, holding_id |-> holding_id,
                                 result |-> TRUE, rendered |-> shown])

\* One browser session: a handler runs when the one before it is done.
NextPage ==
  \/ Idle /\ PortfolioPage
  \/ Idle /\ RefreshButton
  \/ Idle /\ \E t \in TickerInputs, n \in SharesInputs, c \in PriceInputs,
                o \in ProviderOutcomes : PageAddHolding(t, n, c, o)
  \/ Idle /\ \E i \in HoldingIds \cup {MaxHoldingId + 1} : PageDeleteHolding(i)
  \/ Return

SpecPage == Init /\ [][NextPage]_vars

----------------------------------------------------------------------------
(* get_or_create_default_user called by several callers at once, each in   *)
(* a session of its own: the select and the commit are separate statements *)
(* of the store, and other callers' statements come between them.          *)

\* The select: the caller returns the user it finds, and goes on to the
\* insert when it finds none.
SelectUser(c) ==
  /\ sessions[c].pc = "start"
  /\ LET user == first_by_email(users, DefaultEmail)
     IN  sessions' = [sessions EXCEPT ![c] =
                        IF IsNone(user)
                        THEN [pc |-> "insert", result |-> None]
                        ELSE [pc |-> "returned", result |-> user]]
  /\ UNCHANGED <<users, holdings, last>>

\* session.add / commit / refresh of the new user: email is declared
\* unique, so the store refuses the row with an IntegrityError when a user
\* of that email has been committed meanwhile; the caller does not catch it.
CommitUser(c) ==
  /\ sessions[c].pc = "insert"
  /\ IF \E u \in users : u.email = DefaultEmail
     THEN /\ sessions' = [sessions EXCEPT ![c] =
                            [pc |-> "IntegrityError", result |-> None]]
          /\ users' = users
     ELSE \E newId \in FreshIds(users, UserIds) :
            /\ users' = users \cup {User(newId, DefaultName, DefaultEmail)}
            /\ sessions' = [sessions EXCEPT ![c] =
                              [pc |-> "returned",
                               result |-> Some(User(newId, DefaultName, DefaultEmail))]]
  /\ UNCHANGED <<holdings, last>>

\* The caller calls again.
CallAgain(c) ==
  /\ sessions[c].pc \in {"returned", "IntegrityError"}
  /\ sessions' = [sessions EXCEPT ![c] = NoSession]
  /\ UNCHANGED <<users, holdings, last>>

NextConcurrent ==
  \/ \E c \in Callers : SelectUser(c)
  \/ \E c \in Callers : CommitUser(c)
  \/ \E c \in Callers : CallAgain(c)

SpecConcurrent == Init /\ [][NextConcurrent]_vars

----------------------------------------------------------------------------
(* Properties *)

IsCall(op) == last.op = op

\* The answer of the lookup add_holding made.
AddPrice == last.lookups[1].price

\* C1: when the quote lookup answers absent, add_holding returns None and
\* the stored holdings (and users) are exactly those before the call.
C1_RejectedAddWritesNothing ==
  (IsCall("add_holding") /\ IsNone(AddPrice)) =>
    /\ IsNone(last.result)
    /\ holdings = last.before
    /\ users = last.usersBefore

\* C1 witness: an add rejected on a store that already holds a row.
C1_Witness ==
  /\ IsCall("add_holding")
  /\ IsNone(AddPrice)
  /\ IsNone(last.result)
  /\ last.before # {}

\* C2: when the quote lookup answers a price, add_holding stores exactly
\* one new holding and returns it: uppercased ticker, the given shares,
\* purchase price and user id, an assigned id no stored holding had; the
\* earlier holdings are unchanged.
C2_AcceptedAddStoresOne ==
  (IsCall("add_holding") /\ ~IsNone(AddPrice)) =>
    /\ ~IsNone(last.result)
    /\ LET h == Val(last.result)
       IN  /\ h.ticker = Upper(last.ticker)
           /\ h.shares = last.shares
           /\ h.purchase_price = last.purchase_price
           /\ h.user_id = last.user_id
           /\ h.id # NoId
           /\ \A r \in last.before : r.id # h.id
           /\ holdings = last.before \cup {h}
           /\ Cardinality(holdings) = Cardinality(last.before) + 1

\* C2 witness: a mixed-case ticker accepted on a store that holds a row.
C2_Witness ==
  /\ IsCall("add_holding")
  /\ ~IsNone(AddPrice)
  /\ last.ticker # Upper(last.ticker)
  /\ last.before # {}
  /\ Val(last.result) \in holdings

\* The row delete_holding was called on, when it was stored.
DeleteTargets == {r \in last.before : r.id = last.holding_id}

\* Every listing and valuation shows stored rows only.
ReadsShowStoredOnly ==
  /\ IsCall("get_user_holdings") => \A i \in DOMAIN last.result : last.result[i] \in holdings
  /\ IsCall("get_holdings_with_prices") =>
       \A i \in DOMAIN last.result : \E h \in holdings : h.id = last.result[i].id
  /\ IsCall("get_portfolio_summary") =>
       \A i \in DOMAIN last.views : \E h \in holdings : h.id = last.views[i].id

\* C3: delete_holding on a stored id returns true and removes exactly that
\* row; listings and valuations show stored rows only, and a row enters the
\* store by add_holding only, so the id stays out of them until a later add.
C3_DeleteRemovesExactlyThat ==
  /\ [](/\ (IsCall("delete_holding") /\ DeleteTargets # {}) =>
             /\ last.result = TRUE
             /\ holdings = last.before \ DeleteTargets
             /\ \A u \in UserIds :
                  \A i \in DOMAIN get_user_holdings(holdings, u) :
                    get_user_holdings(holdings, u)[i].id # last.holding_id
        /\ ReadsShowStoredOnly)
  /\ [][(holdings' \ holdings # {}) => last'.op = "add_holding"]_vars

\* C3 witness: a delete that removed one of two stored rows.
C3_Witness ==
  /\ IsCall("delete_holding")
  /\ last.result = TRUE
  /\ Cardinality(last.before) = 2
  /\ Cardinality(holdings) = 1
  /\ holdings \subseteq last.before

\* C4: delete_holding on an id that is not stored returns false and leaves
\* holdings and users as they were.
C4_DeleteAbsentIsFalse ==
  (IsCall("delete_holding") /\ DeleteTargets = {}) =>
    /\ last.result = FALSE
    /\ holdings = last.before
    /\ users = last.usersBefore

\* C4 witness: a failed delete of an id the store can assign, other rows
\* being stored.
C4_Witness ==
  /\ IsCall("delete_holding")
  /\ last.result = FALSE
  /\ last.holding_id \in HoldingIds
  /\ last.before # {}

DefaultUsers == {u \in users : u.email = DefaultEmail}

\* C5: get_or_create_default_user creates the user "Portfolio User" /
\* "user@portfolio.com" when none is stored and otherwise returns the
\* stored one; the store never holds two users of that email, and once the
\* user exists no operation changes the users table, so every later call
\* returns the same identity.
C5_DefaultUserIdempotent ==
  /\ [](/\ Cardinality(DefaultUsers) <= 1
        /\ IsCall("get_or_create_default_user") =>
             /\ last.result \in users
             /\ last.result.name = DefaultName
             /\ last.result.email = DefaultEmail
             /\ last.result.id # NoId
             /\ last.created = (last.usersBefore = {})
             /\ ~last.created => users = last.usersBefore)
  /\ [][users # {} => users' = users]_vars

\* C5 witness: a later call that found the user an earlier call created.
C5_Witness ==
  /\ IsCall("get_or_create_default_user")
  /\ ~last.created
  /\ users = {last.result}
  /\ holdings # {}

\* C6: every stored holding has shares >= 0 and purchase_price >= 0.
C6_StoredNonNegative ==
  \A h \in holdings : h.shares >= 0 /\ h.purchase_price >= 0

\* C7: every stored holding's ticker is uppercase and at most 10
\* characters long.
C7_StoredTickerUpperAndShort ==
  \A h \in holdings : IsUpper(h.ticker) /\ Len(h.ticker) <= TickerMaxLength

\* The holdings of the user a valuation was called for, as the call found
\* them, and the places of the lookups that returned a price.
Mine == {h \in last.before : h.user_id = last.user_id}
Priced == {i \in DOMAIN last.lookups : ~IsNone(last.lookups[i].price)}
RowOf(i) == CHOOSE h \in last.before : h.id = last.lookups[i].id

\* The view is the view of the i-th looked up holding at the price found.
ViewOfLookup(view, i) ==
  /\ view.id = RowOf(i).id
  /\ view.ticker = RowOf(i).ticker
  /\ view.shares = RowOf(i).shares
  /\ view.purchase_price = RowOf(i).purchase_price
  /\ view.current_price = Val(last.lookups[i].price)

\* One lookup per listed holding of the user, in listing order; the j-th
\* view is the view of the j-th holding whose lookup returned a price.
ViewsArePricedListing(views) ==
  LET listed == get_user_holdings(last.before, last.user_id)
  IN  /\ last.raised = "no"
      /\ {listed[i] : i \in DOMAIN listed} = Mine
      /\ Len(listed) = Cardinality(Mine)
      /\ Len(last.lookups) = Len(listed)
      /\ \A i \in DOMAIN listed : last.lookups[i].id = listed[i].id
      /\ Len(views) = Cardinality(Priced)
      /\ \A i \in Priced : ViewOfLookup(views[Cardinality({k \in Priced : k <= i})], i)

\* C8: get_holdings_with_prices returns one view for each stored holding
\* of the user whose lookup returned a price, in listing order, none for
\* other users' holdings or unpriced ones; the store is unchanged.
C8_ViewsArePricedHoldingsOfUser ==
  IsCall("get_holdings_with_prices") =>
    /\ ViewsArePricedListing(last.result)
    /\ \A j \in DOMAIN last.result :
         \E h \in Mine : h.id = last.result[j].id
    /\ holdings = last.before

\* C8 witness: of two listed holdings one is priced and one dropped, and
\* the dropped one is still stored.
C8_Witness ==
  /\ IsCall("get_holdings_with_prices")
  /\ Cardinality(Mine) = 2
  /\ Len(last.result) = 1
  /\ IsNone(last.lookups[1].price)
  /\ last.result[1].id = last.lookups[2].id
  /\ \E h \in holdings : h.id = last.lookups[1].id

\* The sum of f over the finite set S.
RECURSIVE SetSum(_, _)
SetSum(S, f) ==
  IF S = {} THEN 0
  ELSE LET x == CHOOSE y \in S : TRUE
       IN  f[x] + SetSum(S \ {x}, f)

\* C9: get_portfolio_summary sums over the priced holdings of the user
\* only: current value = sum of shares * current price, purchase value =
\* sum of shares * purchase_price, gain/loss their difference, count the
\* number of priced holdings.
C9_SummaryAggregatesPriced ==
  IsCall("get_portfolio_summary") =>
    LET cur == SetSum(Priced, [i \in Priced |->
                 RowOf(i).shares * Val(last.lookups[i].price)])
        pur == SetSum(Priced, [i \in Priced |->
                 RowOf(i).shares * RowOf(i).purchase_price])
    IN  /\ ViewsArePricedListing(last.views)
        /\ ~IsNone(last.result)
        /\ Val(last.result).total_current_value = cur
        /\ Val(last.result).total_purchase_value = pur
        /\ Val(last.result).total_gain_loss = cur - pur
        /\ Val(last.result).holdings_count = Cardinality(Priced)

\* C9 witness: a summary over two holdings, one priced at a positive price
\* and one dropped.
C9_Witness ==
  /\ IsCall("get_portfolio_summary")
  /\ Cardinality(Mine) = 2
  /\ Cardinality(Priced) = 1
  /\ Val(last.result).holdings_count = 1
  /\ Val(last.result).total_current_value > 0
  /\ Val(last.result).total_purchase_value > 0

\* C10: for a user without stored holdings get_portfolio_summary returns
\* zero in every field and makes no quote lookup.
C10_EmptySummaryIsZero ==
  (IsCall("get_portfolio_summary") /\ Mine = {}) =>
    /\ last.lookups = <<>>
    /\ last.result = Some([total_current_value |-> 0,
                           total_purchase_value |-> 0,
                           total_gain_loss |-> 0,
                           total_gain_loss_percent |-> DecimalZero,
                           holdings_count |-> 0])

\* C10 witness: a summary for a user who owns nothing while another user
\* owns a holding.
C10_Witness ==
  /\ IsCall("get_portfolio_summary")
  /\ Mine = {}
  /\ last.before # {}
  /\ Val(last.result).holdings_count = 0

\* The calls that value holdings.
IsValuation == IsCall("get_holdings_with_prices") \/ IsCall("get_portfolio_summary")

\* The views a valuation built.
ViewsOfCall == IF IsCall("get_portfolio_summary") THEN last.views ELSE last.result

\* The exceptions of a Decimal division by zero.
DivisionErrors == {"DivisionByZero", "InvalidOperation"}

\* C11: a view whose purchase value shares * purchase_price is 0 has
\* gain_loss_percent 0 and a summary whose total_purchase_value is 0 has
\* total_gain_loss_percent 0, at every current price; no call fails on a
\* division by zero.
C11_PercentZeroOnZeroBase ==
  /\ (IsCall("from_holding") /\ last.holding.id # NoId
        /\ total_purchase_value(last.holding) = 0) =>
       /\ last.raised = "no"
       /\ Val(last.result).gain_loss_percent = DecimalZero
  /\ IsValuation =>
       /\ last.raised \notin DivisionErrors
       /\ \A j \in DOMAIN ViewsOfCall :
            ViewsOfCall[j].shares * ViewsOfCall[j].purchase_price = 0 =>
              ViewsOfCall[j].gain_loss_percent = DecimalZero
  /\ IsCall("get_portfolio_summary") =>
       /\ ~IsNone(last.result)
       /\ Val(last.result).total_purchase_value = 0 =>
            Val(last.result).total_gain_loss_percent = DecimalZero

\* C11 witness: a summary over one priced holding of zero shares, quoted
\* at a positive price.
C11_Witness ==
  /\ IsCall("get_portfolio_summary")
  /\ Val(last.result).holdings_count = 1
  /\ Val(last.result).total_purchase_value = 0
  /\ Val(last.result).total_gain_loss_percent = DecimalZero
  /\ last.views[1].current_price > 0
  /\ last.views[1].purchase_price > 0
  /\ last.views[1].gain_loss_percent = DecimalZero

\* The Decimal of the integer n.
DecimalOfInt(n) ==
  [Normalize([neg |-> FALSE, digits |-> IntDigits(IF n < 0 THEN 0 - n ELSE n), exp |-> 0])
     EXCEPT !.neg = n < 0]

\* The from_holding call on `shares` bought at `purchase_price`, quoted at
\* `current_price`.
IsViewOf(shares, purchase_price, current_price) ==
  /\ IsCall("from_holding")
  /\ last.holding.id # NoId
  /\ last.holding.shares = shares
  /\ last.holding.purchase_price = purchase_price
  /\ last.current_price = current_price

\* 6.666666666666666666666666667, the quotient 100 / 1500 * 100 at 28
\* significant digits.
SixPointSix == [neg |-> FALSE, digits |-> Append(Rep(6, 27), 7), exp |-> -27]

\* C12: for a holding with an id, from_holding gives current_value =
\* shares * current_price, gain_loss = current_value - shares *
\* purchase_price and, for a positive purchase value, gain_loss_percent =
\* gain_loss / purchase value * 100 (the exact percentage when it is a
\* whole number, of the sign of gain_loss otherwise); 10 shares bought at
\* 150.00 give 1600.00 and 100.00 at 160.00, and -100.00 at 140.00.
C12_ViewArithmetic ==
  /\ (IsCall("from_holding") /\ last.holding.id # NoId) =>
       /\ last.raised = "no"
       /\ LET h == last.holding
              v == Val(last.result)
              current == h.shares * last.current_price
              purchase == h.shares * h.purchase_price
          IN  /\ v.id = h.id
              /\ v.current_price = last.current_price
              /\ v.current_value = current
              /\ v.gain_loss = current - purchase
              /\ purchase > 0 =>
                   /\ v.gain_loss_percent =
                        Times100(DecimalDivide(current - purchase, purchase))
                   /\ (100 * (current - purchase)) % purchase = 0 =>
                        v.gain_loss_percent =
                          DecimalOfInt((100 * (current - purchase)) \div purchase)
                   /\ v.gain_loss_percent.neg = (current - purchase < 0)
                   /\ (v.gain_loss_percent = DecimalZero) = (current = purchase)
  /\ IsViewOf(10, 15000, 16000) =>
       /\ Val(last.result).current_value = 160000
       /\ Val(last.result).gain_loss = 10000
       /\ Val(last.result).gain_loss_percent = SixPointSix
  /\ IsViewOf(10, 15000, 14000) =>
       /\ Val(last.result).current_value = 140000
       /\ Val(last.result).gain_loss = -10000
       /\ Val(last.result).gain_loss_percent = [SixPointSix EXCEPT !.neg = TRUE]

\* C12 witness: the view of 10 shares bought at 150.00 and quoted at
\* 140.00, a loss.
C12_Witness ==
  /\ IsViewOf(10, 15000, 14000)
  /\ ~IsNone(last.result)
  /\ Val(last.result).gain_loss < 0
  /\ Len(Val(last.result).gain_loss_percent.digits) = DecimalPrec

\* C13: from_holding on a holding without id raises ValueError and gives
\* no view, at every current price; every stored holding has an id, and no
\* valuation raises.
C13_NoIdRaisesAndStoredHaveIds ==
  /\ (IsCall("from_holding") /\ last.holding.id = NoId) =>
       /\ last.raised = "ValueError"
       /\ IsNone(last.result)
  /\ \A h \in holdings : h.id # NoId
  /\ IsValuation =>
       /\ last.raised = "no"
       /\ \A i \in DOMAIN last.lookups : last.lookups[i].id # NoId

\* C13 witness: from_holding refused a holding object that was never
\* saved, at a positive price, while holdings are stored.
C13_Witness ==
  /\ IsCall("from_holding")
  /\ last.holding.id = NoId
  /\ last.current_price > 0
  /\ last.raised = "ValueError"
  /\ holdings # {}

\* `price` is what the claim gives for the provider's answer: absent for
\* an error or an empty history, otherwise the cent nearest to the close
\* (closes are in tenths of a cent).
QuoteOf(answer, price) ==
  IF answer[1] \in {"error", "empty"}
  THEN IsNone(price)
  ELSE /\ ~IsNone(price)
       /\ 10 * Val(price) - answer[2] \in -5..5

\* C14: get_stock_price raises nothing: its result is absent when the
\* provider fails or has an empty history and the close rounded to cents
\* otherwise, in a direct call and in every lookup of add_holding and of
\* the valuations, which do not raise either; a failed lookup rejects the
\* add and drops the holding from the valuation.
C14_QuoteLookupNeverRaises ==
  /\ IsCall("get_stock_price") =>
       /\ last.raised = "no"
       /\ QuoteOf(last.answer, last.result)
  /\ IsCall("add_holding") =>
       /\ QuoteOf(last.lookups[1].answer, last.lookups[1].price)
       /\ last.lookups[1].answer[1] \in {"error", "empty"} => IsNone(last.result)
  /\ IsValuation =>
       /\ last.raised = "no"
       /\ \A i \in DOMAIN last.lookups :
            /\ QuoteOf(last.lookups[i].answer, last.lookups[i].price)
            /\ last.lookups[i].answer[1] \in {"error", "empty"} =>
                 \A j \in DOMAIN ViewsOfCall : ViewsOfCall[j].id # last.lookups[i].id

\* C14 witness: a summary during which the provider failed for the first
\* holding and had a close for the second.
C14_Witness ==
  /\ IsCall("get_portfolio_summary")
  /\ Len(last.lookups) = 2
  /\ last.lookups[1].answer[1] = "error"
  /\ last.lookups[2].answer[1] = "close"
  /\ last.raised = "no"
  /\ Val(last.result).holdings_count = 1

\* The ids looked up by a valuation, in the order of the lookups, and the
\* provider's answers to them.
LookupIds(lookups) == [i \in DOMAIN lookups |-> lookups[i].id]
LookupAnswers(lookups) == [i \in DOMAIN lookups |-> lookups[i].answer]

\* The ids of the stored holdings of the page's user, in listing order.
StoredIds ==
  LET listed == get_user_holdings(holdings, last.user_id)
  IN  [i \in DOMAIN listed |-> listed[i].id]

\* The two containers show the store as it is now: each valuation looked
\* up exactly the stored holdings of the user, and summary and table are
\* what the two valuations give over the stored rows.
ShowsStore(shown) ==
  /\ LookupIds(shown.summary.lookups) = StoredIds
  /\ LookupIds(shown.holdings.lookups) = StoredIds
  /\ shown = refresh_portfolio(holdings, last.user_id,
                               LookupAnswers(shown.summary.lookups),
                               LookupAnswers(shown.holdings.lookups))
  /\ \A j \in DOMAIN shown.holdings.rows :
       \E h \in holdings :
         /\ h.id = shown.holdings.rows[j].id
         /\ h.shares = shown.holdings.rows[j].shares
         /\ h.purchase_price = shown.holdings.rows[j].purchase_price

\* C16: in the page's add and delete handlers a mutation that succeeded is
\* followed by a refresh of summary and table computed from the store
\* after the mutation (the added holding is looked up, the deleted one is
\* not); a rejected add or a failed delete refreshes nothing and leaves
\* holdings and users as they were.
C16_HandlersRefreshAfterMutation ==
  /\ IsCall("page_add_holding") =>
       IF ~IsNone(last.result)
       THEN /\ holdings = last.before \cup {Val(last.result)}
            /\ Val(last.result) \notin last.before
            /\ ~IsNone(last.rendered)
            /\ ShowsStore(Val(last.rendered))
            /\ \E i \in DOMAIN StoredIds : StoredIds[i] = Val(last.result).id
       ELSE /\ IsNone(last.rendered)
            /\ holdings = last.before
            /\ users = last.usersBefore
  /\ IsCall("page_delete_holding") =>
       IF last.result
       THEN /\ DeleteTargets # {}
            /\ holdings = last.before \ DeleteTargets
            /\ ~IsNone(last.rendered)
            /\ ShowsStore(Val(last.rendered))
            /\ \A i \in DOMAIN StoredIds : StoredIds[i] # last.holding_id
       ELSE /\ IsNone(last.rendered)
            /\ holdings = last.before
            /\ users = last.usersBefore

\* C16 witness: the delete button removed one of two holdings and the
\* refreshed table and summary show the other one.
C16_Witness ==
  /\ IsCall("page_delete_holding")
  /\ last.result
  /\ Cardinality(last.before) = 2
  /\ Len(Val(last.rendered).holdings.rows) = 1
  /\ Val(last.rendered).holdings.rows[1].id # last.holding_id
  /\ Val(Val(last.rendered).summary.summary).holdings_count = 1

\* The handlers that refreshed the page.
HasRefreshed ==
  /\ \/ IsCall("portfolio_page") \/ IsCall("refresh_portfolio")
     \/ IsCall("page_add_holding") \/ IsCall("page_delete_holding")
  /\ ~IsNone(last.rendered)

\* The valuation made one lookup for each stored holding of the user, in
\* listing order, each for the holding's ticker and priced by the answer
\* the provider gave to that lookup.
LooksUpEach(lookups) ==
  LET listed == get_user_holdings(holdings, last.user_id)
  IN  /\ Len(lookups) = Len(listed)
      /\ \A i \in DOMAIN lookups :
           /\ lookups[i].id = listed[i].id
           /\ lookups[i].ticker = listed[i].ticker
           /\ QuoteOf(lookups[i].answer, lookups[i].price)

\* The lookups that returned a price.
PricedIn(lookups) == {i \in DOMAIN lookups : ~IsNone(lookups[i].price)}

\* C15: no quote is kept: each of the two valuations of a refresh makes
\* one lookup per listed holding of the user, in listing order; the table
\* shows the holdings priced by the second valuation at its prices and the
\* summary counts and values those priced by the first, whatever an
\* earlier valuation or add_holding obtained.
C15_QuotesFetchedPerValuation ==
  HasRefreshed =>
    LET first == Val(last.rendered).summary
        second == Val(last.rendered).holdings
    IN  /\ LooksUpEach(first.lookups)
        /\ LooksUpEach(second.lookups)
        /\ Len(second.rows) = Cardinality(PricedIn(second.lookups))
        /\ \A i \in PricedIn(second.lookups) :
             LET row == second.rows[Cardinality({k \in PricedIn(second.lookups) : k <= i})]
             IN  /\ row.id = second.lookups[i].id
                 /\ row.current_price = Val(second.lookups[i].price)
        /\ Val(first.summary).holdings_count = Cardinality(PricedIn(first.lookups))
        /\ Val(first.summary).total_current_value =
             SetSum(PricedIn(first.lookups),
                    [i \in PricedIn(first.lookups) |->
                       get_user_holdings(holdings, last.user_id)[i].shares
                         * Val(first.lookups[i].price)])

\* C15 witness: the add handler stored a holding on a quote; in the
\* refresh that follows the summary's valuation prices it and another
\* holding, and the table's valuation drops it and prices the other at a
\* different price.
C15_Witness ==
  /\ IsCall("page_add_holding")
  /\ ~IsNone(last.result)
  /\ HasRefreshed
  /\ LET first == Val(last.rendered).summary
         second == Val(last.rendered).holdings
     IN  /\ Len(first.lookups) = 2
         /\ first.lookups[2].id = Val(last.result).id
         /\ PricedIn(first.lookups) = {1, 2}
         /\ PricedIn(second.lookups) = {1}
         /\ second.lookups[1].price # first.lookups[1].price
         /\ Len(second.rows) = 1

\* C17: while callers run get_or_create_default_user at the same time,
\* the store holds at most one user of the default email and every call
\* returns that user: no call fails.
C17_ConcurrentCallsReturnTheUser ==
  /\ Cardinality(DefaultUsers) <= 1
  /\ \A c \in Callers :
       /\ sessions[c].pc \in {"start", "insert", "returned"}
       /\ sessions[c].pc = "returned" => DefaultUsers = {Val(sessions[c].result)}

\* The operations that only read.
ReadOps ==
  {"get_user_holdings", "get_holdings_with_prices", "get_portfolio_summary",
   "get_stock_price"}

\* C18: a call of get_user_holdings, get_holdings_with_prices,
\* get_portfolio_summary or get_stock_price leaves holdings and users as
\* they are whatever the provider answers; no step removes or changes a
\* user; add_holding and delete_holding leave the users table alone, and
\* delete_holding removes the row of the given id, whoever owns it, and
\* nothing else.
C18_ReadsAndUsersFrame ==
  [][/\ last'.op \in ReadOps => (holdings' = holdings /\ users' = users)
     /\ users \subseteq users'
     /\ last'.op \in {"add_holding", "delete_holding"} => users' = users
     /\ last'.op = "delete_holding" =>
          /\ holdings' = {h \in holdings : h.id # last'.holding_id}
          /\ last'.result = (\E h \in holdings : h.id = last'.holding_id)]_vars

\* C18 witness: with a user stored and holdings of two owners, a delete
\* removed the holding of owner 2 and left the one of owner 1.
C18_Witness ==
  /\ IsCall("delete_holding")
  /\ last.result = TRUE
  /\ users # {}
  /\ users = last.usersBefore
  /\ \E h \in last.before : h.user_id = 2 /\ h.id = last.holding_id
  /\ \E h \in holdings : h.user_id = 1
  /\ Cardinality(last.before) = Cardinality(holdings) + 1

====
